---- MODULE Spec2Model ----
(***************************************************************************)
(* InvoiceAI backend: the upload -> recognition -> completion pipeline of   *)
(* backend/main.py, backend/ocr.py, backend/ai_client.py, backend/models.py *)
(* and backend/config.py, as a state machine.                               *)
(*                                                                          *)
(* Text is a sequence of one-character strings.  A request handler is a     *)
(* coroutine on a single event loop: it runs alone from one await to the    *)
(* next.  `cur` is the request whose coroutine holds the loop (0: the loop  *)
(* is free), so the steps of one synchronous stretch are never interleaved  *)
(* with another request's.                                                  *)
(***************************************************************************)
EXTENDS Integers, Sequences, FiniteSets, TLC

(***************************************************************************)
(* Bounds of the model.                                                     *)
(***************************************************************************)
NumRequests == 2
MaxPages == 2
MaxLen == 5

(***************************************************************************)
(* Program constants.                                                       *)
(***************************************************************************)
MAX_FILE_SIZE == 10 * 1024 * 1024
ALLOWED_EXTENSIONS ==
    { <<".", "p", "d", "f">>, <<".", "j", "p", "g">>,
      <<".", "j", "p", "e", "g">>, <<".", "p", "n", "g">> }
MIN_TEXT_LEN == 10
OCR_TEXT_LIMIT == 500
PAGE_BREAK ==
    << "\n", "\n", "-", "-", "-", " ", "P", "A", "G", "E", " ",
       "B", "R", "E", "A", "K", " ", "-", "-", "-", "\n", "\n" >>

(***************************************************************************)
(* str and re primitives used by the code.                                  *)
(***************************************************************************)
Whitespace == {" ", "\n", "\t"}

IsSpace(c) == c \in Whitespace

RECURSIVE LStrip(_)
LStrip(s) ==
    IF s = <<>> THEN <<>>
    ELSE IF IsSpace(Head(s)) THEN LStrip(Tail(s)) ELSE s

RECURSIVE RStrip(_)
RStrip(s) ==
    IF s = <<>> THEN <<>>
    ELSE IF IsSpace(s[Len(s)]) THEN RStrip(SubSeq(s, 1, Len(s) - 1)) ELSE s

\* str.strip()
Strip(s) == RStrip(LStrip(s))

\* re.sub(r'\s+', ' ', s): every maximal run of whitespace becomes one space
RECURSIVE SubWhitespaceRuns(_)
SubWhitespaceRuns(s) ==
    IF s = <<>> THEN <<>>
    ELSE IF IsSpace(Head(s)) THEN <<" ">> \o SubWhitespaceRuns(LStrip(s))
    ELSE <<Head(s)>> \o SubWhitespaceRuns(Tail(s))

\* s.split(sep) for a one-character separator: always at least one piece
RECURSIVE Split(_, _)
Split(s, sep) ==
    IF \A i \in 1..Len(s) : s[i] # sep THEN <<s>>
    ELSE LET k == CHOOSE i \in 1..Len(s) :
                      s[i] = sep /\ \A j \in 1..(i - 1) : s[j] # sep
         IN  <<SubSeq(s, 1, k - 1)>> \o Split(SubSeq(s, k + 1, Len(s)), sep)

\* sep.join(parts)
RECURSIVE Join(_, _)
Join(parts, sep) ==
    IF parts = <<>> THEN <<>>
    ELSE IF Len(parts) = 1 THEN parts[1]
    ELSE parts[1] \o sep \o Join(Tail(parts), sep)

\* [f(x) for x in xs]
StripEach(lines) == [i \in 1..Len(lines) |-> Strip(lines[i])]

\* [x for x in xs if x]
RECURSIVE DropEmpty(_)
DropEmpty(lines) ==
    IF lines = <<>> THEN <<>>
    ELSE IF Head(lines) = <<>> THEN DropEmpty(Tail(lines))
    ELSE <<Head(lines)>> \o DropEmpty(Tail(lines))

\* A faulty variant of the whitespace collapse: a single left-to-right pass replacing each pair of adjacent whitespace
\* characters by one space, as text.replace would: runs of three or more are
\* only shortened.
RECURSIVE ReplacePairsOnce(_)
ReplacePairsOnce(s) ==
    IF s = <<>> THEN <<>>
    ELSE IF Len(s) >= 2 /\ IsSpace(s[1]) /\ IsSpace(s[2])
         THEN <<" ">> \o ReplacePairsOnce(SubSeq(s, 3, Len(s)))
    ELSE <<Head(s)>> \o ReplacePairsOnce(Tail(s))

\* clean_text with that collapse
clean_text_single_pass(text) ==
    Strip(Join(DropEmpty(StripEach(Split(ReplacePairsOnce(text), "\n"))), <<"\n">>))

\* OCRProcessor.clean_text
clean_text(text) ==
    LET collapsed == SubWhitespaceRuns(text)
        lines     == DropEmpty(StripEach(Split(collapsed, "\n")))
        cleaned   == Join(lines, <<"\n">>)
    IN  Strip(cleaned)


(***************************************************************************)
(* File names and paths.  The uploaded file names of the model have no      *)
(* directory part, so Path(name).name is the name itself.                   *)
(***************************************************************************)
UPPER == << "A", "B", "C", "D", "E", "F", "G", "H", "I", "J", "K", "L", "M",
            "N", "O", "P", "Q", "R", "S", "T", "U", "V", "W", "X", "Y", "Z" >>
LOWER == << "a", "b", "c", "d", "e", "f", "g", "h", "i", "j", "k", "l", "m",
            "n", "o", "p", "q", "r", "s", "t", "u", "v", "w", "x", "y", "z" >>

LowerChar(c) ==
    IF \E k \in 1..Len(UPPER) : UPPER[k] = c
    THEN LOWER[CHOOSE k \in 1..Len(UPPER) : UPPER[k] = c]
    ELSE c

\* str.lower()
Lower(s) == [i \in 1..Len(s) |-> LowerChar(s[i])]

\* str.rfind('.') counted from 1; 0 when there is no dot
RFindDot(name) ==
    IF \E i \in 1..Len(name) : name[i] = "."
    THEN CHOOSE i \in 1..Len(name) :
             name[i] = "." /\ \A j \in (i + 1)..Len(name) : name[j] # "."
    ELSE 0

\* PurePath.suffix: the last dot starts the suffix unless it is the first
\* or the last character of the name
PathSuffix(name) ==
    LET k == RFindDot(name)
    IN  IF 1 < k /\ k < Len(name) THEN SubSeq(name, k, Len(name)) ELSE <<>>

\* Path(file.filename).suffix.lower()
file_ext_of(name) == Lower(PathSuffix(name))

\* uuid.uuid4(): a value no other call returns
uuid4(r) == r

\* settings.UPLOAD_DIR / f"{uuid.uuid4()}{file_ext}"
UploadPath(r, ext) == [dir |-> "uploads", stem |-> <<"uuid-", uuid4(r)>>, ext |-> ext]

PNG == <<".", "p", "n", "g">>

\* f"temp_page_{i}.png", relative to the working directory
PagePath(i) == [dir |-> ".", stem |-> <<"temp_page_", i>>, ext |-> PNG]

NoPath == [dir |-> "", stem |-> <<"", 0>>, ext |-> <<>>]

\* Path(file_path).suffix.lower() of a path built above: the stem has no dot
PathExt(p) == Lower(p.ext)

(***************************************************************************)
(* str(int), and messages.  A message is a sequence of pieces of text; an   *)
(* f-string is the concatenation of its pieces.                             *)
(***************************************************************************)
DIGITS == << "0", "1", "2", "3", "4", "5", "6", "7", "8", "9" >>

RECURSIVE str_int(_)
str_int(n) ==
    IF n < 10 THEN <<DIGITS[n + 1]>>
    ELSE str_int(n \div 10) \o <<DIGITS[(n % 10) + 1]>>

IsInfix(part, msg) ==
    \E k \in 0..(Len(msg) - Len(part)) :
        \A j \in 1..Len(part) : msg[k + j] = part[j]

(***************************************************************************)
(* JSON values, tagged by type.                                             *)
(***************************************************************************)
JNull    == [t |-> "null", v |-> <<>>]
JStr(s)  == [t |-> "str", v |-> s]
JNum(n)  == [t |-> "num", v |-> n]
JArr(xs) == [t |-> "arr", v |-> xs]
JObj(f)  == [t |-> "obj", v |-> f]
EmptyDict == [k \in {} |-> JNull]


(***************************************************************************)
(* models.py: LineItem, InvoiceData, APIResponse.  A model is built from a  *)
(* dict (a function from keys to JSON values); a key that is absent takes   *)
(* the field's default, a key that is no field is ignored.                  *)
(***************************************************************************)
Field(d, k, default) == IF k \in DOMAIN d THEN d[k] ELSE default

\* Optional[str]
OptStrOK(x) == x.t \in {"null", "str"}

\* Optional[float]
OptFloatOK(x) == x.t \in {"null", "num"}

LineItemOK(x) ==
    /\ x.t = "obj"
    /\ OptStrOK(Field(x.v, "description", JNull))
    /\ OptFloatOK(Field(x.v, "quantity", JNull))
    /\ OptFloatOK(Field(x.v, "unit_price", JNull))
    /\ OptFloatOK(Field(x.v, "line_total", JNull))

LineItem(d) ==
    [ description |-> Field(d, "description", JNull),
      quantity    |-> Field(d, "quantity", JNull),
      unit_price  |-> Field(d, "unit_price", JNull),
      line_total  |-> Field(d, "line_total", JNull) ]

STR_FIELDS ==
    { "supplier_name", "supplier_abn_or_vat", "supplier_address",
      "invoice_number", "issue_date", "due_date", "currency", "notes" }
FLOAT_FIELDS == { "subtotal", "tax_amount", "tax_rate", "total_amount" }

\* List[LineItem]
LineItemsOK(x) ==
    x.t = "arr" /\ \A i \in 1..Len(x.v) : LineItemOK(x.v[i])

\* pydantic's validation of InvoiceData(**d)
InvoiceDataOK(d) ==
    /\ \A k \in STR_FIELDS \cap DOMAIN d : OptStrOK(d[k])
    /\ \A k \in FLOAT_FIELDS \cap DOMAIN d : OptFloatOK(d[k])
    /\ "line_items" \in DOMAIN d => LineItemsOK(d["line_items"])

\* a faulty variant: the currency field declared with default None
NO_DEFAULT_CURRENCY == JNull

\* currency: Optional[str] = Field("USD", ...)
DEFAULT_CURRENCY == JStr("USD")

InvoiceData(d) ==
    [ supplier_name       |-> Field(d, "supplier_name", JNull),
      supplier_abn_or_vat |-> Field(d, "supplier_abn_or_vat", JNull),
      supplier_address    |-> Field(d, "supplier_address", JNull),
      invoice_number      |-> Field(d, "invoice_number", JNull),
      issue_date          |-> Field(d, "issue_date", JNull),
      due_date            |-> Field(d, "due_date", JNull),
      currency            |-> Field(d, "currency", DEFAULT_CURRENCY),
      subtotal            |-> Field(d, "subtotal", JNull),
      tax_amount          |-> Field(d, "tax_amount", JNull),
      tax_rate            |-> Field(d, "tax_rate", JNull),
      total_amount        |-> Field(d, "total_amount", JNull),
      line_items          |->
          IF "line_items" \in DOMAIN d
          THEN [i \in 1..Len(d["line_items"].v) |-> LineItem(d["line_items"].v[i].v)]
          ELSE <<>>,
      notes               |-> Field(d, "notes", JNull) ]

NoData == [t |-> "null", v |-> <<>>]
NoText == [t |-> "null", v |-> <<>>]

\* APIResponse(success=..., data=..., error=..., ocr_text=...), and the
\* HTTPException a handler raises instead; one record shape for both
APIResponse(success, data, error, ocr_text) ==
    [ kind |-> "APIResponse", success |-> success, data |-> data,
      error |-> error, ocr_text |-> ocr_text, status_code |-> 200, detail |-> <<>> ]

HTTPException(status_code, detail) ==
    [ kind |-> "HTTPException", success |-> FALSE, data |-> NoData,
      error |-> NoText, ocr_text |-> NoText,
      status_code |-> status_code, detail |-> detail ]

NoResult ==
    [ kind |-> "none", success |-> FALSE, data |-> NoData,
      error |-> NoText, ocr_text |-> NoText, status_code |-> 0, detail |-> <<>> ]

(***************************************************************************)
(* ai_client.py: CerebrasClient.extract_invoice_data.                       *)
(* A response of the completion endpoint is                                 *)
(*   [transport, status_code, text, json]                                   *)
(* transport "timeout" when the call raised instead of returning, text the  *)
(* body, json what response.json() makes of the body.  A string that is     *)
(* meant to hold JSON is [wellformed, value]: json.loads raises on the      *)
(* first kind and returns value on the second.                              *)
(***************************************************************************)
Raise(msg) == [ok |-> FALSE, data |-> NoData, err |-> msg]
Return(data) == [ok |-> TRUE, data |-> [t |-> "InvoiceData", v |-> data], err |-> <<>>]

\* Response.is_success
IsSuccess(status_code) == 200 <= status_code /\ status_code <= 299

\* a faulty variant: the response body left out of the message
StatusErrorMessageNoBody(resp) ==
    <<"Cerebras API error: ">> \o str_int(resp.status_code)

\* except httpx.HTTPStatusError
StatusErrorMessage(resp) ==
    <<"Cerebras API error: ">> \o str_int(resp.status_code) \o <<" - ", resp.text>>

\* except json.JSONDecodeError
JSONErrorMessage == <<"Failed to parse JSON response from Cerebras: ", "Expecting value">>

\* except Exception
OtherErrorMessage(inner) == <<"Failed to extract invoice data: ", inner>>

\* result["choices"][0]["message"]["content"] can be taken
HasContent(result) ==
    /\ result.v["choices"].v[1].t = "obj"
    /\ "message" \in DOMAIN result.v["choices"].v[1].v
    /\ result.v["choices"].v[1].v["message"].t = "obj"
    /\ "content" \in DOMAIN result.v["choices"].v[1].v["message"].v

ParseContent(content) ==
    IF content.t # "str" THEN Raise(OtherErrorMessage("the JSON object must be str"))
    ELSE IF ~content.v.wellformed THEN Raise(JSONErrorMessage)
    ELSE IF content.v.value.t # "obj"
         THEN Raise(OtherErrorMessage("argument after ** must be a mapping"))
    ELSE IF ~InvoiceDataOK(content.v.value.v)
         THEN Raise(OtherErrorMessage("validation error for InvoiceData"))
    ELSE Return(InvoiceData(content.v.value.v))

extract_invoice_data(resp) ==
    IF resp.transport # "ok" THEN Raise(OtherErrorMessage(resp.transport))
    ELSE IF ~IsSuccess(resp.status_code) THEN Raise(StatusErrorMessage(resp))
    ELSE IF ~resp.json.wellformed THEN Raise(JSONErrorMessage)
    ELSE IF resp.json.value.t # "obj"
         THEN Raise(OtherErrorMessage("Invalid response from Cerebras API: no choices"))
    ELSE IF \/ "choices" \notin DOMAIN resp.json.value.v
            \/ resp.json.value.v["choices"].t # "arr"
            \/ Len(resp.json.value.v["choices"].v) = 0
         THEN Raise(OtherErrorMessage("Invalid response from Cerebras API: no choices"))
    ELSE IF ~HasContent(resp.json.value) THEN Raise(OtherErrorMessage("KeyError"))
    ELSE ParseContent(resp.json.value.v["choices"].v[1].v["message"].v["content"])


(***************************************************************************)
(* What the world hands to the program: uploads, what the recognition       *)
(* engine and the rasterizer make of them, and the completion endpoint's    *)
(* responses.                                                               *)
(***************************************************************************)
Requests == 1..NumRequests

Filenames ==
    << <<"i", ".", "p", "d", "f">>,
       <<"i", ".", "J", "P", "G">>,
       <<"i", ".", "j", "p", "e", "g">>,
       <<"i", ".", "P", "n", "g">>,
       <<"d", "o", "c", ".", "t", "x", "t">>,
       <<".", "p", "d", "f">> >>

ContentSizes == { MAX_FILE_SIZE, MAX_FILE_SIZE + 1 }

\* reader.readtext: a fault, or the text fragments in reading order
ReadtextResults ==
    << [ok |-> FALSE, lines |-> <<>>],
       [ok |-> TRUE, lines |-> << <<" ", "T", "o", "t", "a", "l", " ", "1", "1", "0", "\t">> >>],
       [ok |-> TRUE, lines |-> << <<"T", "o", "t", "a", "l">>, <<"$", "1", "1", "0">> >>] >>

JsonText(value) == [wellformed |-> TRUE, value |-> value]
NotJson == [wellformed |-> FALSE, value |-> JNull]

Contents ==
    << JNull,
       JStr(NotJson),
       JStr(JsonText(JArr(<<>>))),
       JStr(JsonText(JObj(EmptyDict))),
       JStr(JsonText(JObj("confidence" :> JNum(1)))),
       JStr(JsonText(JObj("currency" :> JNull))),
       JStr(JsonText(JObj("total_amount" :> JStr("abc")))),
       JStr(JsonText(JObj("line_items" :> JNull))),
       JStr(JsonText(JObj(
           "invoice_number" :> JStr("123") @@ "currency" :> JStr("EUR")
           @@ "total_amount" :> JNum(110)
           @@ "line_items" :> JArr(<< JObj("description" :> JStr("Widget")
                                           @@ "quantity" :> JNum(2)) >>)))) >>

Completion(content) ==
    [ transport |-> "ok", status_code |-> 200, text |-> "{...}",
      json |-> JsonText(JObj("choices" :>
                  JArr(<< JObj("message" :> JObj("content" :> content)) >>))) ]

Responses ==
    << [transport |-> "timeout", status_code |-> 0, text |-> "", json |-> NotJson],
       [transport |-> "ok", status_code |-> 500, text |-> "Internal Server Error",
        json |-> NotJson],
       [transport |-> "ok", status_code |-> 404, text |-> "{\"message\": \"not found\"}",
        json |-> JsonText(JObj("message" :> JStr("not found")))],
       [transport |-> "ok", status_code |-> 200, text |-> "<html>", json |-> NotJson],
       [transport |-> "ok", status_code |-> 200, text |-> "{}",
        json |-> JsonText(JObj(EmptyDict))],
       [transport |-> "ok", status_code |-> 200, text |-> "{\"choices\": []}",
        json |-> JsonText(JObj("choices" :> JArr(<<>>)))],
       [transport |-> "ok", status_code |-> 200, text |-> "{\"choices\": [{}]}",
        json |-> JsonText(JObj("choices" :> JArr(<< JObj(EmptyDict) >>)))] >>
    \o [k \in 1..Len(Contents) |-> Completion(Contents[k])]

NoResponse == [transport |-> "none", status_code |-> 0, text |-> "", json |-> NotJson]

(***************************************************************************)
(* State.                                                                   *)
(***************************************************************************)
VARIABLES
    CEREBRAS_API_KEY,  \* settings.CEREBRAS_API_KEY, read from the environment
    service,           \* "starting", "running", or "failed" (startup raised)
    ocr_processor,     \* main.ocr_processor: "None" or "OCRProcessor"
    ai_client,         \* main.ai_client: "None" or "CerebrasClient"
    health,            \* the last answer of /api/health
    disk,              \* the paths that exist on disk
    cur,               \* the request whose coroutine holds the event loop, or 0
    req,               \* per request: where its handler is, and its locals
    hist,              \* per request: what it has done so far
    sample             \* the text given to clean_text, and what came back

vars == << CEREBRAS_API_KEY, service, ocr_processor, ai_client, health, disk,
           cur, req, hist, sample >>

NewRequest ==
    [ pc |-> "new", filename |-> <<>>, file_path |-> NoPath, content_len |-> -1,
      images |-> 0, i |-> 0, all_text |-> <<>>, recognized |-> "no",
      ocr_text |-> <<>>, prompt |-> <<>>, response |-> NoResponse,
      result |-> NoResult ]

NewHistory ==
    [ touched |-> {}, ocr_calls |-> 0, ai_calls |-> 0, pages_left |-> {} ]

NoSample == [stage |-> 0, raw |-> <<>>, once |-> <<>>, twice |-> <<>>]

NoHealth == [status |-> "", api_configured |-> FALSE, error |-> ""]

\* Settings.validate
validate ==
    IF CEREBRAS_API_KEY = ""
    THEN <<FALSE, "CEREBRAS_API_KEY not found in environment variables">>
    ELSE <<TRUE, "">>

Init ==
    /\ CEREBRAS_API_KEY \in {"", "csk-key"}
    /\ service = "starting"
    /\ ocr_processor = "None"
    /\ ai_client = "None"
    /\ health = NoHealth
    /\ disk = {}
    /\ cur = 0
    /\ req = [r \in Requests |-> NewRequest]
    /\ hist = [r \in Requests |-> NewHistory]
    /\ sample = NoSample

(***************************************************************************)
(* main.py: startup and the health check.                                   *)
(***************************************************************************)
\* CerebrasClient.__init__ raises ValueError when the key is not set
ClientConstructs == CEREBRAS_API_KEY # ""

\* lifespan: both processors are built before the first request is served;
\* an exception in it ends the startup and the process serves nothing
Startup ==
    /\ service = "starting"
    /\ ocr_processor' = "OCRProcessor"
    /\ IF ClientConstructs
       THEN ai_client' = "CerebrasClient" /\ service' = "running"
       ELSE ai_client' = "None" /\ service' = "failed"
    /\ UNCHANGED << CEREBRAS_API_KEY, health, disk, cur, req, hist, sample >>

health_check ==
    /\ service = "running"
    /\ cur = 0
    /\ health' = [ status |-> IF validate[1] THEN "healthy" ELSE "degraded",
                   api_configured |-> validate[1],
                   error |-> IF ~validate[1] THEN validate[2] ELSE "" ]
    /\ UNCHANGED << CEREBRAS_API_KEY, service, ocr_processor, ai_client, disk,
                    cur, req, hist, sample >>


(***************************************************************************)
(* main.py: extract_invoice, one action per stretch between awaits, and     *)
(* within the recognition stretch one action per call of the rasterizer     *)
(* or the recognition engine.  An exception raised inside the inner try     *)
(* runs its finally clause (the upload is unlinked if it exists) before     *)
(* the handler's except clauses make the response.                          *)
(***************************************************************************)
IMAGE_EXTENSIONS ==
    { <<".", "j", "p", "g">>, <<".", "j", "p", "e", "g">>, <<".", "p", "n", "g">> }
PDF_EXTENSION == <<".", "p", "d", "f">>

PyStr(msg) == [t |-> "str", v |-> msg]

\* except Exception as e: APIResponse(success=False, error=str(e))
FailureEnvelope(msg) == APIResponse(FALSE, NoData, PyStr(msg), NoText)

\* ocr_text[:500] + "..." if len(ocr_text) > 500 else ocr_text
Truncated(text) ==
    IF Len(text) > OCR_TEXT_LIMIT
    THEN SubSeq(text, 1, OCR_TEXT_LIMIT) \o <<"...">>
    ELSE text

\* a faulty variant: no finally clause, the upload stays
UnlinkedLeaving(files, path) == files

\* finally: if file_path.exists(): file_path.unlink()
Unlinked(files, path) == files \ {path}

Touch(r, paths) == [hist EXCEPT ![r].touched = @ \cup paths]

UnsupportedDetail(file_ext) ==
    <<"Unsupported file type: ">> \o file_ext
        \o <<". Allowed types: ", ".pdf, .jpg, .jpeg, .png">>

TOO_LARGE_DETAIL == <<"File too large. Maximum size: ", "10.0", "MB">>

\* a faulty variant: the limit itself refused (>= for >)
SizeAllowedBelowLimit(n) == n < MAX_FILE_SIZE

\* not (len(content) > settings.MAX_FILE_SIZE)
SizeAllowed(n) == ~(n > MAX_FILE_SIZE)

\* lines 93-112: the checks, then the upload is opened for writing (which
\* creates it) and the handler awaits the payload
receive(r) ==
    /\ service = "running"
    /\ cur = 0
    /\ req[r].pc = "new"
    /\ \E k \in 1..Len(Filenames) :
         LET name      == Filenames[k]
             file_ext  == file_ext_of(name)
             file_path == UploadPath(r, file_ext)
         IN  IF file_ext \notin ALLOWED_EXTENSIONS
             THEN /\ req' = [req EXCEPT ![r] = [@ EXCEPT
                                !.pc = "responding", !.filename = name,
                                !.result = HTTPException(400, UnsupportedDetail(file_ext))]]
                  /\ cur' = r
                  /\ UNCHANGED << disk, hist >>
             ELSE IF ~validate[1]
             THEN /\ req' = [req EXCEPT ![r] = [@ EXCEPT
                                !.pc = "responding", !.filename = name,
                                !.result = HTTPException(500, <<validate[2]>>)]]
                  /\ cur' = r
                  /\ UNCHANGED << disk, hist >>
             ELSE /\ req' = [req EXCEPT ![r] = [@ EXCEPT
                                !.pc = "reading", !.filename = name,
                                !.file_path = file_path]]
                  /\ disk' = disk \cup {file_path}
                  /\ hist' = Touch(r, {file_path})
                  /\ cur' = 0
    /\ UNCHANGED << CEREBRAS_API_KEY, service, ocr_processor, ai_client, health, sample >>

\* lines 112-121: the payload has arrived; too large raises, else it is written
read_done(r) ==
    /\ cur = 0
    /\ req[r].pc = "reading"
    /\ \E n \in ContentSizes :
         IF ~SizeAllowed(n)
         THEN /\ req' = [req EXCEPT ![r] = [@ EXCEPT
                            !.pc = "responding", !.content_len = n,
                            !.result = HTTPException(400, TOO_LARGE_DETAIL)]]
              /\ disk' = Unlinked(disk, req[r].file_path)
         ELSE /\ req' = [req EXCEPT ![r] = [@ EXCEPT !.pc = "ocr", !.content_len = n]]
              /\ disk' = disk
    /\ cur' = r
    /\ UNCHANGED << CEREBRAS_API_KEY, service, ocr_processor, ai_client, health,
                    hist, sample >>

IMAGE_ERROR == <<"Failed to extract text from image: ", "engine fault">>

\* ocr.py: process_file on an image, extract_text_from_image
process_image(r) ==
    /\ cur = r
    /\ req[r].pc = "ocr"
    /\ PathExt(req[r].file_path) # PDF_EXTENSION
    /\ IF PathExt(req[r].file_path) \notin IMAGE_EXTENSIONS
       THEN /\ req' = [req EXCEPT ![r] = [@ EXCEPT
                          !.pc = "responding", !.recognized = "fault",
                          !.result = FailureEnvelope(
                              <<"Unsupported file type: ">> \o PathExt(req[r].file_path))]]
            /\ hist' = hist
       ELSE \E k \in 1..Len(ReadtextResults) :
              LET res == ReadtextResults[k]
              IN  /\ hist' = [hist EXCEPT ![r].ocr_calls = @ + 1]
                  /\ IF ~res.ok
                     THEN req' = [req EXCEPT ![r] = [@ EXCEPT
                                     !.pc = "responding", !.recognized = "fault",
                                     !.result = FailureEnvelope(IMAGE_ERROR)]]
                     ELSE req' = [req EXCEPT ![r] = [@ EXCEPT
                                     !.pc = "guard", !.recognized = "ok",
                                     !.ocr_text = clean_text(Join(res.lines, <<"\n">>))]]
    /\ disk' = IF req'[r].pc = "responding"
               THEN Unlinked(disk, req[r].file_path) ELSE disk
    /\ UNCHANGED << CEREBRAS_API_KEY, service, ocr_processor, ai_client, health,
                    cur, sample >>

\* ocr.py line 66: convert_from_path, a fault or one image per page
convert_pdf(r) ==
    /\ cur = r
    /\ req[r].pc = "ocr"
    /\ PathExt(req[r].file_path) = PDF_EXTENSION
    /\ \/ /\ req' = [req EXCEPT ![r] = [@ EXCEPT
                        !.pc = "responding", !.recognized = "fault",
                        !.result = FailureEnvelope(
                            <<"Failed to extract text from PDF: ", "rasterizer fault">>)]]
          /\ disk' = Unlinked(disk, req[r].file_path)
       \/ /\ \E n \in 1..MaxPages :
               req' = [req EXCEPT ![r] = [@ EXCEPT
                          !.pc = "pages", !.images = n, !.i = 0, !.all_text = <<>>]]
          /\ disk' = disk
    /\ UNCHANGED << CEREBRAS_API_KEY, service, ocr_processor, ai_client, health,
                    cur, hist, sample >>

PagesWritten(n) == { PagePath(j) : j \in 0..(n - 1) }

\* the page image after a page whose recognition raised: line 81 is skipped
PageFilesAfterFault(files, page) == files

\* ocr.py lines 71-81: one turn of the loop over the pages
pdf_page(r) ==
    /\ cur = r
    /\ req[r].pc = "pages"
    /\ req[r].i < req[r].images
    /\ \E k \in 1..Len(ReadtextResults) :
         LET res   == ReadtextResults[k]
             page  == PagePath(req[r].i)
             saved == disk \cup {page}
         IN  IF ~res.ok
             THEN /\ req' = [req EXCEPT ![r] = [@ EXCEPT
                                !.pc = "responding", !.recognized = "fault",
                                !.result = FailureEnvelope(
                                    <<"Failed to extract text from PDF: ">> \o IMAGE_ERROR)]]
                  /\ disk' = Unlinked(PageFilesAfterFault(saved, page), req[r].file_path)
                  /\ hist' = [hist EXCEPT
                                ![r].ocr_calls = @ + 1,
                                ![r].touched = @ \cup {page},
                                ![r].pages_left =
                                    PagesWritten(req[r].i + 1)
                                        \cap PageFilesAfterFault(saved, page)]
             ELSE /\ req' = [req EXCEPT ![r] = [@ EXCEPT
                                !.i = @ + 1,
                                !.all_text = Append(@, Join(res.lines, <<"\n">>))]]
                  /\ disk' = saved \ {page}
                  /\ hist' = [hist EXCEPT
                                ![r].ocr_calls = @ + 1,
                                ![r].touched = @ \cup {page}]
    /\ UNCHANGED << CEREBRAS_API_KEY, service, ocr_processor, ai_client, health,
                    cur, sample >>

\* ocr.py lines 84-86 and 116-118: the pages are joined and the text cleaned
pdf_done(r) ==
    /\ cur = r
    /\ req[r].pc = "pages"
    /\ req[r].i = req[r].images
    /\ req' = [req EXCEPT ![r] = [@ EXCEPT
                  !.pc = "guard", !.recognized = "ok",
                  !.images = 0, !.i = 0, !.all_text = <<>>,
                  !.ocr_text = clean_text(Join(req[r].all_text, PAGE_BREAK))]]
    /\ hist' = [hist EXCEPT ![r].pages_left = PagesWritten(req[r].images) \cap disk]
    /\ UNCHANGED << CEREBRAS_API_KEY, service, ocr_processor, ai_client, health,
                    disk, cur, sample >>

\* _build_user_prompt
UserPrompt(ocr_text) ==
    <<"Extract all invoice information from the following OCR text ... OCR TEXT:\n">>
        \o ocr_text \o <<"\n\nReturn ONLY the JSON object with this exact structure ...">>

INSUFFICIENT == <<"OCR failed to extract meaningful text from the file">>

\* a faulty variant: a text of exactly the minimum length refused (<= for <)
MeaningfulOverTen(ocr_text) ==
    ~(ocr_text = <<>> \/ Len(Strip(ocr_text)) <= MIN_TEXT_LEN)

\* not (not ocr_text or len(ocr_text.strip()) < 10)
Meaningful(ocr_text) ==
    ~(ocr_text = <<>> \/ Len(Strip(ocr_text)) < MIN_TEXT_LEN)

\* lines 127-134: the guard, then the completion client is called and awaited
check_text(r) ==
    /\ cur = r
    /\ req[r].pc = "guard"
    /\ IF ~Meaningful(req[r].ocr_text)
       THEN /\ req' = [req EXCEPT ![r] = [@ EXCEPT
                          !.pc = "responding", !.result = FailureEnvelope(INSUFFICIENT)]]
            /\ disk' = Unlinked(disk, req[r].file_path)
            /\ UNCHANGED << hist, cur >>
       ELSE /\ req' = [req EXCEPT ![r] = [@ EXCEPT
                          !.pc = "awaitPost", !.prompt = UserPrompt(req[r].ocr_text)]]
            /\ hist' = [hist EXCEPT ![r].ai_calls = @ + 1]
            /\ cur' = 0
            /\ disk' = disk
    /\ UNCHANGED << CEREBRAS_API_KEY, service, ocr_processor, ai_client, health, sample >>

\* a faulty variant: a failed call is followed by a second call
calls_after_post_retrying(calls, out) == IF out.ok THEN calls ELSE calls + 1

\* ai_client.py lines 143-178: the network calls the request has made once
\* extract_invoice_data has returned or raised.  There is one client.post and
\* no loop around it; each except clause raises, nothing calls again.
calls_after_post(calls, out) == calls

\* lines 134-148: extract_invoice_data returns or raises.  What it does with
\* the response touches nothing shared, so it is taken with the resumption.
completion_returns(r) ==
    /\ cur = 0
    /\ req[r].pc = "awaitPost"
    /\ \E k \in 1..Len(Responses) :
         LET out == extract_invoice_data(Responses[k])
         IN  /\ req' = [req EXCEPT ![r] = [@ EXCEPT
                           !.pc = "responding", !.response = Responses[k],
                           !.result =
                               IF out.ok
                               THEN APIResponse(TRUE, out.data, NoText,
                                                PyStr(Truncated(req[r].ocr_text)))
                               ELSE FailureEnvelope(out.err)]]
             /\ hist' = [hist EXCEPT ![r].ai_calls = calls_after_post(@, out)]
    /\ disk' = Unlinked(disk, req[r].file_path)
    /\ cur' = r
    /\ UNCHANGED << CEREBRAS_API_KEY, service, ocr_processor, ai_client, health,
                    sample >>

\* the response (or the HTTPException) leaves the handler; its frame is gone
respond(r) ==
    /\ cur = r
    /\ req[r].pc = "responding"
    /\ req' = [req EXCEPT ![r] = [NewRequest EXCEPT !.pc = "finished"]]
    /\ hist' = [hist EXCEPT ![r] = NewHistory]
    /\ cur' = 0
    /\ UNCHANGED << CEREBRAS_API_KEY, service, ocr_processor, ai_client, health,
                    disk, sample >>

Next ==
    \/ Startup
    \/ health_check
    \/ \E r \in Requests :
         \/ receive(r)
         \/ read_done(r)
         \/ process_image(r)
         \/ convert_pdf(r)
         \/ pdf_page(r)
         \/ pdf_done(r)
         \/ check_text(r)
         \/ completion_returns(r)
         \/ respond(r)

Spec == Init /\ [][Next]_vars


(***************************************************************************)
(* clean_text on its own: every text of at most MaxLen characters over an   *)
(* alphabet with a letter and the three kinds of whitespace is cleaned,     *)
(* and the result cleaned again.                                            *)
(***************************************************************************)
CleanAlphabet == {"a", " ", "\n", "\t"}

Texts == UNION { [1..n -> CleanAlphabet] : n \in 0..MaxLen }

InitClean ==
    /\ CEREBRAS_API_KEY = "csk-key"
    /\ service = "starting"
    /\ ocr_processor = "None"
    /\ ai_client = "None"
    /\ health = NoHealth
    /\ disk = {}
    /\ cur = 0
    /\ req = [r \in Requests |-> NewRequest]
    /\ hist = [r \in Requests |-> NewHistory]
    /\ \E raw \in Texts : sample = [NoSample EXCEPT !.raw = raw]

clean_once ==
    /\ sample.stage = 0
    /\ sample' = [sample EXCEPT !.stage = 1, !.once = clean_text(sample.raw)]
    /\ UNCHANGED << CEREBRAS_API_KEY, service, ocr_processor, ai_client, health,
                    disk, cur, req, hist >>

clean_twice ==
    /\ sample.stage = 1
    /\ sample' = [sample EXCEPT !.stage = 2, !.twice = clean_text(sample.once)]
    /\ UNCHANGED << CEREBRAS_API_KEY, service, ocr_processor, ai_client, health,
                    disk, cur, req, hist >>

NextClean == clean_once \/ clean_twice

SpecClean == InitClean /\ [][NextClean]_vars

(***************************************************************************)
(* Properties.                                                              *)
(***************************************************************************)
InFlight(r) == req[r].pc \notin {"new", "finished"}

Ended(r) == req[r].pc = "responding"

IsUploadOf(p, r) == p.dir = "uploads" /\ p.stem = <<"uuid-", r>>

\* C1: once a request that created its upload has ended, in whatever way,
\* the upload uploads/<uuid><ext> is not on disk.
C1_UploadRemoved ==
    \A r \in Requests :
        req[r].pc \in {"responding", "finished"} =>
            \A p \in disk : ~IsUploadOf(p, r)

\* a request ended by a JSON parse failure of the completion, its upload
\* created and gone
C1_Witness ==
    \E r \in Requests :
        /\ Ended(r)
        /\ req[r].response.transport = "ok"
        /\ req[r].result.kind = "APIResponse"
        /\ req[r].result.error.t = "str"
        /\ req[r].result.error.v = JSONErrorMessage
        /\ req[r].file_path \in hist[r].touched
        /\ req[r].file_path \notin disk

\* C2: after extract_text_from_pdf has returned or raised, none of the page
\* images it wrote is on disk.
C2_PagesRemoved ==
    \A r \in Requests : InFlight(r) => hist[r].pages_left = {}


\* what the request was given, read off its state
AcceptedName(name) ==
    LET suffix == PathSuffix(name)
    IN  \E e \in ALLOWED_EXTENSIONS :
            /\ Len(suffix) = Len(e)
            /\ \A j \in 1..Len(e) : LowerChar(suffix[j]) = e[j]

CredentialSet == CEREBRAS_API_KEY # ""

Oversized(r) == req[r].content_len > 10 * 1024 * 1024

PreflightRejected(r) ==
    \/ ~AcceptedName(req[r].filename)
    \/ ~CredentialSet
    \/ Oversized(r)

TextTooShort(r) == req[r].recognized = "ok" /\ Len(req[r].ocr_text) < 10

Answered(r) == req[r].response.transport # "none"

NonSuccessStatus(resp) ==
    resp.transport = "ok" /\ (resp.status_code < 200 \/ resp.status_code > 299)

\* the first completion's content, when the response has one
HasCompletion(resp) ==
    /\ resp.transport = "ok"
    /\ ~NonSuccessStatus(resp)
    /\ resp.json.wellformed
    /\ resp.json.value.t = "obj"
    /\ "choices" \in DOMAIN resp.json.value.v
    /\ Len(resp.json.value.v["choices"].v) > 0
    /\ "message" \in DOMAIN resp.json.value.v["choices"].v[1].v

ContentOf(resp) == resp.json.value.v["choices"].v[1].v["message"].v["content"]

IsJsonObject(c) == c.t = "str" /\ c.v.wellformed /\ c.v.value.t = "obj"

RECORD_FIELDS == STR_FIELDS \cup FLOAT_FIELDS \cup {"line_items"}

\* a response that is a usable completion: 2xx, a first completion, content
\* that parses to an object whose fields have the record's types
Usable(resp) ==
    /\ HasCompletion(resp)
    /\ IsJsonObject(ContentOf(resp))
    /\ LET d == ContentOf(resp).v.value.v
       IN  /\ \A k \in DOMAIN d \cap (STR_FIELDS) : d[k].t \in {"null", "str"}
           /\ \A k \in DOMAIN d \cap (FLOAT_FIELDS) : d[k].t \in {"null", "num"}
           /\ "line_items" \in DOMAIN d => d["line_items"].t = "arr"

FailedAfterPreflight(r) ==
    \/ req[r].recognized = "fault"
    \/ TextTooShort(r)
    \/ (Answered(r) /\ ~Usable(req[r].response))

IsFailureEnvelope(res) ==
    /\ res.kind = "APIResponse"
    /\ res.success = FALSE
    /\ res.error.t = "str"
    /\ Len(res.error.v) > 0
    /\ res.data.t = "null"

\* C3: a request ends with an envelope or with an HTTP rejection and nothing
\* else; a failure after the pre-flight checks ends it with a failure
\* envelope (success false, an error message, no record), a pre-flight
\* rejection ends it with an HTTPException; for a non-2xx status the
\* envelope's error has the status code and the body text in it.
C3_FailureContract ==
    \A r \in Requests :
        Ended(r) =>
            LET rejected == PreflightRejected(r)
                res      == req[r].result
            IN  /\ res.kind \in {"APIResponse", "HTTPException"}
                /\ rejected => res.kind = "HTTPException"
                /\ (~rejected /\ FailedAfterPreflight(r)) => IsFailureEnvelope(res)
                /\ NonSuccessStatus(req[r].response) =>
                       /\ IsFailureEnvelope(res)
                       /\ IsInfix(str_int(req[r].response.status_code), res.error.v)
                       /\ IsInfix(<<req[r].response.text>>, res.error.v)

\* a request answered 500 by the completion endpoint, and ended
C3_Witness ==
    \E r \in Requests :
        /\ Ended(r)
        /\ req[r].response.transport = "ok"
        /\ req[r].response.status_code = 500
        /\ req[r].result.kind = "APIResponse"

\* C4: a request whose cleaned text has fewer than 10 characters (none
\* included) never calls the completion client and ends with the failure
\* envelope for insufficient content; with 10 characters or more the guard
\* is passed and the client is called.
C4_InsufficientContent ==
    \A r \in Requests :
        /\ (InFlight(r) /\ TextTooShort(r)) =>
               /\ hist[r].ai_calls = 0
               /\ req[r].pc \in {"guard", "responding"}
               /\ Ended(r) =>
                      /\ IsFailureEnvelope(req[r].result)
                      /\ req[r].result.error.v = INSUFFICIENT
        /\ (req[r].recognized = "ok" /\ Len(req[r].ocr_text) >= 10
               /\ req[r].pc \in {"awaitPost", "responding"}) =>
               hist[r].ai_calls = 1
        /\ hist[r].ai_calls > 0 => Len(req[r].ocr_text) >= 10

\* one request ended on a text of 9 characters, another past the guard on a
\* text of exactly 10
C4_Witness ==
    \E r1, r2 \in Requests :
        /\ Ended(r1) /\ req[r1].recognized = "ok" /\ Len(req[r1].ocr_text) = 9
        /\ hist[r1].ai_calls = 0
        /\ req[r2].pc = "awaitPost" /\ Len(req[r2].ocr_text) = 10
        /\ hist[r2].ai_calls = 1

\* C5: a request ended by a pre-flight rejection has created no upload and
\* has invoked neither the recognition engine nor the completion client.
C5_RejectionTouchesNothing ==
    \A r \in Requests :
        (Ended(r) /\ req[r].result.kind = "HTTPException") =>
            /\ hist[r].touched = {}
            /\ hist[r].ocr_calls = 0
            /\ hist[r].ai_calls = 0

\* C6: with the credential missing the service is up once started, and a
\* health check then answers degraded with api_configured false.
C6_DegradedNotCrashed ==
    (CEREBRAS_API_KEY = "" /\ service # "starting") =>
        /\ service = "running"
        /\ health # NoHealth =>
               (health.status = "degraded" /\ health.api_configured = FALSE)

\* a text in cleaned form: its only whitespace is single spaces between
\* other characters
IsClean(text) ==
    \A k \in 1..Len(text) :
        text[k] \in {" ", "\n", "\t"} =>
            /\ text[k] = " "
            /\ 1 < k /\ k < Len(text)
            /\ text[k + 1] \notin {" ", "\n", "\t"}

\* C7: a request with an accepted extension in any letter case, a payload
\* of at most 10 MiB and the credential set is not rejected; its
\* recognition runs; when that succeeds with at least 10 characters of
\* cleaned text the completion client is called once, with that text; and
\* the client is never called before recognition has run and succeeded.
C7_ReachesCompletion ==
    \A r \in Requests :
        /\ hist[r].ai_calls > 0 =>
               (req[r].recognized = "ok" /\ hist[r].ocr_calls > 0)
        /\ Ended(r) =>
               /\ (AcceptedName(req[r].filename) /\ CredentialSet
                      /\ req[r].content_len >= 0 /\ ~Oversized(r)) =>
                      /\ req[r].result.kind = "APIResponse"
                      /\ req[r].recognized # "no"
                      /\ (req[r].recognized = "ok" /\ Len(req[r].ocr_text) >= 10) =>
                             (hist[r].ai_calls = 1 /\ Answered(r))
               /\ Answered(r) =>
                      /\ hist[r].ai_calls = 1
                      /\ IsClean(req[r].ocr_text)
                      /\ Len(req[r].prompt) = Len(req[r].ocr_text) + 2
                      /\ SubSeq(req[r].prompt, 2, Len(req[r].prompt) - 1)
                             = req[r].ocr_text

\* an upload named i.JPG of exactly 10 MiB whose text went to the client
C7_Witness ==
    \E r \in Requests :
        /\ Ended(r)
        /\ req[r].filename = <<"i", ".", "J", "P", "G">>
        /\ req[r].content_len = 10 * 1024 * 1024
        /\ hist[r].ai_calls = 1
        /\ Answered(r)

\* C8: cleaning cleaned text returns it unchanged.
C8_CleanIdempotent ==
    sample.stage = 2 => sample.twice = sample.once

\* a text with a run of three whitespace characters inside, cleaned twice
C8_Witness ==
    /\ sample.stage = 2
    /\ sample.raw = <<"a", " ", "\n", "\t", "a">>
    /\ sample.once = <<"a", " ", "a">>

\* C9: a 2xx response whose first completion is a JSON object with none of
\* the record's fields ends the request with a successful envelope whose
\* record has every optional field absent, no line items, currency "USD".
C9_DefaultsOnEmptyObject ==
    \A r \in Requests :
        (/\ Ended(r)
         /\ HasCompletion(req[r].response)
         /\ IsJsonObject(ContentOf(req[r].response))
         /\ DOMAIN ContentOf(req[r].response).v.value.v \cap RECORD_FIELDS = {}) =>
            /\ req[r].result.kind = "APIResponse"
            /\ req[r].result.success = TRUE
            /\ req[r].result.data.t = "InvoiceData"
            /\ \A f \in (STR_FIELDS \cup FLOAT_FIELDS) \ {"currency"} :
                   req[r].result.data.v[f].t = "null"
            /\ req[r].result.data.v.line_items = <<>>
            /\ req[r].result.data.v.currency.t = "str"
            /\ req[r].result.data.v.currency.v = "USD"

\* a request ended on the completion content {}
C9_Witness ==
    \E r \in Requests :
        /\ Ended(r)
        /\ HasCompletion(req[r].response)
        /\ IsJsonObject(ContentOf(req[r].response))
        /\ DOMAIN ContentOf(req[r].response).v.value.v = {}
        /\ req[r].result.success = TRUE

\* C10: the paths two requests in flight have created, read or deleted are
\* disjoint.
C10_DisjointPaths ==
    \A r1, r2 \in Requests :
        (r1 # r2 /\ InFlight(r1) /\ InFlight(r2)) =>
            hist[r1].touched \cap hist[r2].touched = {}

\* the completion call of the request came back as a failure: a timeout, a
\* non-2xx status, no completion, content that is not JSON, or content that
\* does not fit the record
CompletionFailed(r) == Answered(r) /\ ~Usable(req[r].response)

\* what one step does to the calls and the position of request r
SingleCallStep(r) ==
    /\ hist'[r].ai_calls > hist[r].ai_calls =>
           (hist[r].ai_calls = 0 /\ req[r].pc = "guard")
    /\ (req[r].pc = "awaitPost" /\ req'[r].pc # "awaitPost") =>
           (req'[r].pc = "responding" /\ hist'[r].ai_calls = hist[r].ai_calls)
    /\ (req[r].pc = "responding" /\ req'[r].pc # "responding") =>
           req'[r].pc = "finished"
    /\ req[r].pc = "finished" => req'[r].pc = "finished"

\* C11: a request makes at most one network call to the completion endpoint.
\* A call is made only by a request that has made none; when the call comes
\* back the request goes straight to its response and from there it only
\* finishes; after a completion failure (timeout, non-2xx status, missing
\* completion, JSON parse failure, schema mismatch) the request ends with a
\* failure envelope having made exactly one call.
C11_SingleCall ==
    /\ [](\A r \in Requests :
             /\ hist[r].ai_calls <= 1
             /\ (Ended(r) /\ CompletionFailed(r)) =>
                    (hist[r].ai_calls = 1 /\ IsFailureEnvelope(req[r].result)))
    /\ [][\A r \in Requests : SingleCallStep(r)]_vars

\* a request whose completion call timed out, ended after its one call
C11_Witness ==
    \E r \in Requests :
        /\ Ended(r)
        /\ req[r].response.transport = "timeout"
        /\ hist[r].ai_calls = 1
        /\ req[r].result.success = FALSE

====
